---- MODULE Spec2Model ----
(***************************************************************************)
(* Model of the news page: the feed parser (services/news.ts), the page    *)
(* that orders and partitions the articles (the Home component) and the    *)
(* per-card image / favicon state (components/news-article-card.tsx).      *)
(*                                                                         *)
(* A JavaScript string is a sequence of one-character strings; the JS      *)
(* value `undefined` is Undefined where a string is expected.              *)
(***************************************************************************)
EXTENDS Integers, Sequences, FiniteSets, TLC

VARIABLES
    pc,            \* position of the modelled run
    line,          \* parseCSV: the line being scanned
    scan,          \* parseCSV: the loop state [i, current, inQuotes, values]
    fetchCount,    \* getNews: number of fetch() calls made so far
    response,      \* getNews: what fetch() produced
    outcome,       \* getNews: how the promise settled ("pending"/"resolved"/"rejected")
    allArticles,   \* Home: the list getNews resolved to
    sortedArticles,\* Home: the mapped, filtered and sorted list
    cards,         \* the rendered NewsArticleCard instances, in render order
    env,           \* the runtime: [tz |-> minutes east of UTC, engine |-> Date parser]
    dateInput,     \* parseDateString / formatDate: the argument
    dateTrace      \* parseDateString / formatDate: the formats tried and the result

vars == <<pc, line, scan, fetchCount, response, outcome, allArticles,
          sortedArticles, cards, env, dateInput, dateTrace>>

\* `undefined` where a string is expected: no JS string, since every element
\* of a JS string is one character
Undefined == <<"undefined">>
\* `undefined` where one character is expected (an index past the end)
NoChar == "undefined"
\* the value of a variable the current run does not use
Idle == <<>>

Quote == "\""
Comma == ","
Newline == "\n"

(***************************************************************************)
(* Bounds of the model.                                                    *)
(***************************************************************************)
MaxLineLen == 4
MaxFeedRows == 2
MaxDateLen == 5
MaxHomeRows == 5
MaxCardRows == 2
MaxErrorEvents == 3

(***************************************************************************)
(* String helpers.                                                         *)
(***************************************************************************)
IsSpace(c) == c \in {" ", "\t", "\n", "\r"}

RECURSIVE TrimStart(_)
TrimStart(s) ==
    IF s # <<>> /\ IsSpace(Head(s)) THEN TrimStart(Tail(s)) ELSE s

RECURSIVE TrimEnd(_)
TrimEnd(s) ==
    IF s # <<>> /\ IsSpace(s[Len(s)]) THEN TrimEnd(SubSeq(s, 1, Len(s) - 1)) ELSE s

\* String.prototype.trim
Trim(s) == TrimEnd(TrimStart(s))

\* String.prototype.split on a one-character separator
RECURSIVE SplitAcc(_, _, _)
SplitAcc(s, sep, cur) ==
    IF s = <<>> THEN <<cur>>
    ELSE IF Head(s) = sep THEN <<cur>> \o SplitAcc(Tail(s), sep, <<>>)
    ELSE SplitAcc(Tail(s), sep, Append(cur, Head(s)))

Split(s, sep) == SplitAcc(s, sep, <<>>)

\* Array.prototype.join on a one-character separator
RECURSIVE Join(_, _)
Join(parts, sep) ==
    IF parts = <<>> THEN <<>>
    ELSE IF Len(parts) = 1 THEN parts[1]
    ELSE parts[1] \o <<sep>> \o Join(Tail(parts), sep)

\* sequences over S of length 0..n
SeqUpTo(S, n) == UNION { [1..k -> S] : k \in 0..n }

(***************************************************************************)
(* parseCSV (services/news.ts): the scan of one line.                      *)
(***************************************************************************)
ScanInit == [i |-> 1, current |-> <<>>, inQuotes |-> FALSE, values |-> <<>>]

\* line[i + 1] === '"' : an index past the end reads undefined
CharAt(l, i) == IF i >= 1 /\ i <= Len(l) THEN l[i] ELSE NoChar

\* one iteration of the for loop, the i++ of the loop header included
ScanStep(l, st) ==
    LET char == l[st.i] IN
    IF char = Quote /\ CharAt(l, st.i + 1) = Quote
    THEN [st EXCEPT !.current = Append(@, Quote), !.i = @ + 2]
    ELSE IF char = Quote
    THEN [st EXCEPT !.inQuotes = ~@, !.i = @ + 1]
    ELSE IF char = Comma /\ ~st.inQuotes
    THEN [st EXCEPT !.values = Append(@, Trim(st.current)),
                    !.current = <<>>, !.i = @ + 1]
    ELSE [st EXCEPT !.current = Append(@, char), !.i = @ + 1]

\* values.push(current.trim()) after the loop
ScanFinish(st) == Append(st.values, Trim(st.current))

RECURSIVE ScanFrom(_, _)
ScanFrom(l, st) ==
    IF st.i > Len(l) THEN ScanFinish(st) ELSE ScanFrom(l, ScanStep(l, st))

ParseLine(l) == ScanFrom(l, ScanInit)

parseCSV(csvText) ==
    LET lines == Split(Trim(csvText), Newline)
    IN  [k \in 1..Len(lines) |-> ParseLine(lines[k])]

(***************************************************************************)
(* Run 1: parseCSV scanning one line, one loop iteration per step.         *)
(***************************************************************************)
LineChars == {"a", Quote, Comma, " "}

InitCSV ==
    /\ pc = "scan"
    /\ line \in SeqUpTo(LineChars, MaxLineLen)
    /\ scan = ScanInit
    /\ fetchCount = 0
    /\ response = Idle
    /\ outcome = "pending"
    /\ allArticles = <<>>
    /\ sortedArticles = <<>>
    /\ cards = <<>>
    /\ env = Idle
    /\ dateInput = Idle
    /\ dateTrace = Idle

\* the body of the for loop at line[scan.i]
ScanChar ==
    /\ pc = "scan"
    /\ scan.i <= Len(line)
    /\ scan' = ScanStep(line, scan)
    /\ UNCHANGED <<pc, line, fetchCount, response, outcome, allArticles,
                   sortedArticles, cards, env, dateInput, dateTrace>>

\* the loop has ended: push the last value and return
ScanEnd ==
    /\ pc = "scan"
    /\ scan.i > Len(line)
    /\ scan' = [scan EXCEPT !.values = ScanFinish(scan), !.current = <<>>]
    /\ pc' = "scanned"
    /\ UNCHANGED <<line, fetchCount, response, outcome, allArticles,
                   sortedArticles, cards, env, dateInput, dateTrace>>

NextCSV == ScanChar \/ ScanEnd

SpecCSV == InitCSV /\ [][NextCSV]_vars

\* C4: in the scan of a line, a doubled quote met inside a quoted field
\* appends exactly one literal quote to the current field and leaves the
\* inside-quoted-field flag alone; any other quote character (a quote pair
\* met outside a quoted field included) toggles the flag and appends nothing.
C4_QuoteHandling ==
    [][ (pc = "scan" /\ scan.i <= Len(line) /\ line[scan.i] = Quote) =>
          IF scan.inQuotes /\ CharAt(line, scan.i + 1) = Quote
          THEN /\ scan'.current = Append(scan.current, Quote)
               /\ scan'.inQuotes = scan.inQuotes
          ELSE /\ scan'.inQuotes = ~scan.inQuotes
               /\ scan'.current = scan.current ]_vars

(***************************************************************************)
(* getNews (services/news.ts).                                             *)
(***************************************************************************)
\* row[k] of a JS array (0-based): undefined past the end
Cell(row, k) == IF k + 1 <= Len(row) THEN row[k + 1] ELSE Undefined

\* JS truthiness of a string-or-undefined value
Truthy(v) == v # Undefined /\ v # <<>>

\* a || b
OrElse(a, b) == IF Truthy(a) THEN a ELSE b

NoTitle == <<"N", "o", " ", "T", "i", "t", "l", "e">>
NoSummary == <<"N", "o", " ", "S", "u", "m", "m", "a", "r", "y">>
UnknownSource ==
    <<"U", "n", "k", "n", "o", "w", "n", " ", "S", "o", "u", "r", "c", "e">>
General == <<"G", "e", "n", "e", "r", "a", "l">>

\* the header row kept: rows.slice(0)
DataRows_KeepHeader(rows) == rows

\* rows.slice(1)
DataRows(rows) == SubSeq(rows, 2, Len(rows))

\* only the title tested
RowHasEssentials_TitleOnly(row) == Truthy(Cell(row, 0))

\* if (row[0] && row[4])
RowHasEssentials(row) == Truthy(Cell(row, 0)) /\ Truthy(Cell(row, 4))

\* the object pushed for a kept row
RowToArticle(row) ==
    [ title    |-> OrElse(Cell(row, 0), NoTitle),
      date     |-> OrElse(Cell(row, 1), Undefined),
      imageUrl |-> OrElse(Cell(row, 2), <<>>),
      summary  |-> OrElse(Cell(row, 3), NoSummary),
      url      |-> OrElse(Cell(row, 4), <<"#">>),
      source   |-> OrElse(Cell(row, 5), UnknownSource),
      category |-> General ]

\* dataRows.reduce(...): keep the rows with a title and a url, in order
RECURSIVE ReduceRows(_)
ReduceRows(rows) ==
    IF rows = <<>> THEN <<>>
    ELSE IF RowHasEssentials(Head(rows))
         THEN <<RowToArticle(Head(rows))>> \o ReduceRows(Tail(rows))
         ELSE ReduceRows(Tail(rows))

\* the try block once the response text is there
ArticlesOf(csvText) == ReduceRows(DataRows(parseCSV(csvText)))

\* the error rethrown instead of swallowed
CatchHandler_Rethrow == [outcome |-> "rejected", value |-> <<>>]

\* the catch block: log and `return []`
CatchHandler == [outcome |-> "resolved", value |-> <<>>]

\* what fetch() and response.text() can produce
ResponseThrow == [kind |-> "throw", text |-> <<>>]
ResponseNotOk == [kind |-> "notOk", text |-> <<>>]
ResponseBodyError == [kind |-> "bodyError", text |-> <<>>]
ResponseOk(t) == [kind |-> "ok", text |-> t]

\* the body of getNews after `await fetch(...)` has settled with r
GetNewsResult(r) ==
    IF r.kind = "ok"
    THEN [outcome |-> "resolved", value |-> ArticlesOf(r.text)]
    ELSE CatchHandler

\* Home calls getNews, which calls fetch once and awaits it
Fetch(responses) ==
    /\ pc = "start"
    /\ \E r \in responses : response' = r
    /\ fetchCount' = fetchCount + 1
    /\ pc' = "fetched"
    /\ UNCHANGED <<line, scan, outcome, allArticles, sortedArticles, cards,
                   env, dateInput, dateTrace>>

\* the rest of getNews: its promise settles and Home's await resumes
GetNewsSettle ==
    /\ pc = "fetched"
    /\ LET res == GetNewsResult(response) IN
       /\ outcome' = res.outcome
       /\ allArticles' = res.value
    /\ pc' = "settled"
    /\ UNCHANGED <<line, scan, fetchCount, response, sortedArticles, cards,
                   env, dateInput, dateTrace>>

(***************************************************************************)
(* Run 2: getNews on a feed.  The feed is a header line and up to          *)
(* MaxFeedRows data lines, with or without a final newline.                *)
(***************************************************************************)
Str_a == <<"a">>
Str_u == <<"u">>
QuotedAB == <<Quote, "a", Comma, "b", Quote>>
QuotedEmpty == <<Quote, Quote>>
Date544 == <<"5", "/", "4", "/", "2", "0", "2", "5">>

FeedTitles == { Str_a, <<>>, <<" ">>, QuotedAB }
FeedUrls == { Str_u, <<>>, <<" ">> }

FeedLines ==
    { Join(<<t, <<>>, <<>>, <<"s">>, u, <<"x">> >>, Comma) :
        t \in FeedTitles, u \in FeedUrls }
    \cup { Join(<<Str_a, Date544, <<"i">>, <<>>, Str_u>>, Comma),  \* no source
           Join(<<QuotedEmpty, <<>>, <<>>, <<>>, Str_u>>, Comma),
           Join(<<Str_a, <<>>, <<>>, <<"s">> >>, Comma),           \* four fields
           Str_a,                                                  \* one field
           <<>> }                                                  \* empty line

FeedHeaders ==
    { Join(<<<<"t">>, <<"d">>, <<"i">>, <<"s">>, <<"u">>, <<"n">> >>, Comma),
      Join(<<Str_a, <<>>, <<>>, <<>>, Str_u, <<"x">> >>, Comma) }

FeedTexts(maxRows) ==
    { Join(<<h>> \o rows, Newline) \o tail :
        h \in FeedHeaders, rows \in SeqUpTo(FeedLines, maxRows),
        tail \in { <<>>, <<Newline>> } }

FeedResponses(maxRows) ==
    { ResponseThrow, ResponseNotOk, ResponseBodyError }
    \cup { ResponseOk(t) : t \in FeedTexts(maxRows) }

InitPage ==
    /\ pc = "start"
    /\ line = Idle
    /\ scan = Idle
    /\ fetchCount = 0
    /\ response = Idle
    /\ outcome = "pending"
    /\ allArticles = <<>>
    /\ sortedArticles = <<>>
    /\ cards = <<>>
    /\ dateInput = Idle
    /\ dateTrace = Idle

InitFeed == InitPage /\ env = Idle

NextFeed == Fetch(FeedResponses(MaxFeedRows)) \/ GetNewsSettle

SpecFeed == InitFeed /\ [][NextFeed]_vars

\* the parsed rows of a successfully fetched feed
FetchedRows == parseCSV(response.text)

FeedParsed == pc = "settled" /\ response.kind = "ok"

\* a data row with a non-empty title (column 0) and url (column 4)
WellFormedRow(row) == Len(row) >= 5 /\ row[1] # <<>> /\ row[5] # <<>>

\* the positions (in the parsed rows) of the well-formed rows after the first
WellFormedAt(rows) == { k \in 2..Len(rows) : WellFormedRow(rows[k]) }

\* the i-th smallest element of a finite set of integers
RECURSIVE NthOf(_, _)
NthOf(S, i) ==
    LET m == CHOOSE x \in S : \A y \in S : x <= y
    IN  IF i = 1 THEN m ELSE NthOf(S \ {m}, i - 1)

\* C1: after a successful fetch no returned article has an empty title or an
\* empty url: every article carries the title and url of a data row in which
\* both are non-empty, and no more articles are returned than there are such
\* rows (a row with an empty or missing column 0 or 4 is not in the output).
C1_NoEmptyTitleOrUrl ==
    FeedParsed =>
        /\ \A i \in 1..Len(allArticles) :
              /\ allArticles[i].title \notin { <<>>, Undefined }
              /\ allArticles[i].url \notin { <<>>, Undefined }
              /\ \E k \in WellFormedAt(FetchedRows) :
                    /\ allArticles[i].title = FetchedRows[k][1]
                    /\ allArticles[i].url = FetchedRows[k][5]
        /\ Len(allArticles) <= Cardinality(WellFormedAt(FetchedRows))

\* a feed with a kept row and a skipped row: one that has a title but whose
\* url is empty or missing (fewer than five fields)
C1_Witness ==
    /\ FeedParsed
    /\ Len(allArticles) = 1
    /\ \E k \in 2..Len(FetchedRows) :
          /\ Cell(FetchedRows[k], 0) # <<>>
          /\ Cell(FetchedRows[k], 4) \in { <<>>, Undefined }

\* C2: after a successful fetch the first parsed row is discarded whatever it
\* holds, and the returned list is, in feed order, one article per well-formed
\* row after the first, with columns 0..5 as title, date, imageUrl, summary,
\* url, source (an empty optional column reads as absent / its default).
C2_OneArticlePerWellFormedRow ==
    FeedParsed =>
        LET rows == FetchedRows
            wf == WellFormedAt(rows)
        IN  /\ Len(allArticles) = Cardinality(wf)
            /\ \A i \in 1..Len(allArticles) :
                  LET r == rows[NthOf(wf, i)]
                      a == allArticles[i]
                  IN  /\ a.title = r[1]
                      /\ a.date = (IF r[2] # <<>> THEN r[2] ELSE Undefined)
                      /\ a.imageUrl = r[3]
                      /\ a.summary = (IF r[4] # <<>> THEN r[4] ELSE NoSummary)
                      /\ a.url = r[5]
                      /\ a.source = (IF Len(r) >= 6 /\ r[6] # <<>>
                                     THEN r[6] ELSE UnknownSource)

\* a header that would itself be a well-formed row, followed by two kept rows
\* with different titles
C2_Witness ==
    /\ FeedParsed
    /\ WellFormedRow(FetchedRows[1])
    /\ Len(allArticles) = 2
    /\ allArticles[1].title # allArticles[2].title
    /\ allArticles[1].date # Undefined

\* C3: when the fetch throws or the response status is not a success status,
\* getNews resolves to the empty list; its promise never rejects, and fetch is
\* called once only.
C3_FailureYieldsEmptyList ==
    /\ outcome # "rejected"
    /\ fetchCount <= 1
    /\ (pc = "settled" /\ response.kind \in {"throw", "notOk"}) =>
          /\ outcome = "resolved"
          /\ allArticles = <<>>
          /\ fetchCount = 1

C3_Witness ==
    pc = "settled" /\ response.kind = "notOk" /\ outcome = "resolved"

(***************************************************************************)
(* Dates.  A Date is [valid, time]; an Invalid Date has valid = FALSE.     *)
(* `time` is the time value since the epoch, kept as whole days and        *)
(* seconds of the day, [day, sec] with 0 <= sec < 86400, so that four-digit*)
(* years stay within 32-bit integers.  env.tz is the local zone in       *)
(* minutes east of UTC; env.engine is the Date string parser of the        *)
(* runtime, whose handling of non-ISO strings the language leaves to the   *)
(* implementation.                                                         *)
(***************************************************************************)
ZeroTime == [day |-> 0, sec |-> 0]

InvalidDate == [valid |-> FALSE, time |-> ZeroTime]

\* the time value of `days` whole days and `secs` seconds (secs of any sign)
TimeOf(days, secs) == [day |-> days + (secs \div 86400), sec |-> secs % 86400]

\* a.getTime() < b.getTime()
TimeBefore(a, b) == a.day < b.day \/ (a.day = b.day /\ a.sec < b.sec)

Digits == <<"0", "1", "2", "3", "4", "5", "6", "7", "8", "9">>

IsDigit(c) == \E k \in 1..10 : Digits[k] = c

DigitVal(c) == (CHOOSE k \in 1..10 : Digits[k] = c) - 1

RECURSIVE NumVal(_)
NumVal(s) ==
    IF s = <<>> THEN 0 ELSE NumVal(SubSeq(s, 1, Len(s) - 1)) * 10 + DigitVal(s[Len(s)])

\* the number of leading digits of s, at most n
RECURSIVE DigitRun(_, _)
DigitRun(s, n) ==
    IF n = 0 \/ s = <<>> \/ ~IsDigit(Head(s)) THEN 0 ELSE 1 + DigitRun(Tail(s), n - 1)

IsLeapYear(y) == (y % 4 = 0 /\ y % 100 # 0) \/ y % 400 = 0

DaysInMonth(y, m) ==
    IF m = 2 THEN (IF IsLeapYear(y) THEN 29 ELSE 28)
    ELSE IF m \in {4, 6, 9, 11} THEN 30 ELSE 31

\* days from 1970-01-01 to the civil date y-m-d (proleptic Gregorian, y >= 1)
DaysFromCivil(y, m, d) ==
    LET yy  == IF m <= 2 THEN y - 1 ELSE y
        era == yy \div 400
        yoe == yy - era * 400
        mp  == IF m > 2 THEN m - 3 ELSE m + 9
        doy == (153 * mp + 2) \div 5 + d - 1
        doe == yoe * 365 + yoe \div 4 - yoe \div 100 + doy
    IN  era * 146097 + doe - 719468

\* the civil date of a day number
CivilFromDays(z0) ==
    LET z   == z0 + 719468
        era == z \div 146097
        doe == z - era * 146097
        yoe == (doe - doe \div 1460 + doe \div 36524 - doe \div 146096) \div 365
        doy == doe - (365 * yoe + yoe \div 4 - yoe \div 100)
        mp  == (5 * doy + 2) \div 153
        d   == doy - (153 * mp + 2) \div 5 + 1
        m   == IF mp < 10 THEN mp + 3 ELSE mp - 9
        y   == yoe + era * 400 + (IF m <= 2 THEN 1 ELSE 0)
    IN  [year |-> y, month |-> m, day |-> d]

\* the instant of a local wall-clock time
LocalTime(e, days, secs) == [valid |-> TRUE, time |-> TimeOf(days, secs - e.tz * 60)]

\* the instant of a UTC wall-clock time
UtcTime(days, secs) == [valid |-> TRUE, time |-> TimeOf(days, secs)]

\* date-fns numeric month pattern /^(1[0-2]|0?\d)/ : length of the match
MonthRun(s) ==
    IF DigitRun(s, 1) = 0 THEN 0
    ELSE IF Len(s) >= 2 /\ s[1] = "1" /\ s[2] \in {"0", "1", "2"} THEN 2
    ELSE IF Len(s) >= 2 /\ s[1] = "0" /\ IsDigit(s[2]) THEN 2
    ELSE 1

\* date-fns numeric day pattern /^(3[0-1]|[0-2]?\d)/ : length of the match
DayRun(s) ==
    IF DigitRun(s, 1) = 0 THEN 0
    ELSE IF Len(s) >= 2 /\ s[1] = "3" /\ s[2] \in {"0", "1"} THEN 2
    ELSE IF Len(s) >= 2 /\ s[1] \in {"0", "1", "2"} /\ IsDigit(s[2]) THEN 2
    ELSE 1

\* one token of a date-fns format consumed from the front of s:
\* [ok, val, rest]
TakeToken(tok, s) ==
    LET n == CASE tok = "M"    -> MonthRun(s)
               [] tok = "d"    -> DayRun(s)
               [] tok = "yyyy" -> DigitRun(s, 4)
               [] tok \in {"MM", "dd"} -> DigitRun(s, 2)
               [] OTHER -> IF s # <<>> /\ Head(s) = tok THEN 1 ELSE 0
    IN  IF n = 0 THEN [ok |-> FALSE, val |-> 0, rest |-> s]
        ELSE [ok |-> TRUE,
              val |-> IF IsDigit(s[1]) THEN NumVal(SubSeq(s, 1, n)) ELSE 0,
              rest |-> SubSeq(s, n + 1, Len(s))]

\* date-fns parse(s, format, new Date()) for a format of three numeric tokens
\* and two literal separators; `order` says which token is year, month, day.
\* The result is local midnight of the date, or an Invalid Date when a token
\* does not match, text is left over, or a value is out of range.
ParseTokens(e, s, toks, order) ==
    LET t1 == TakeToken(toks[1], s)
        t2 == TakeToken(toks[2], t1.rest)
        t3 == TakeToken(toks[3], t2.rest)
        t4 == TakeToken(toks[4], t3.rest)
        t5 == TakeToken(toks[5], t4.rest)
        v  == <<t1.val, t3.val, t5.val>>
        y  == v[order.year]
        m  == v[order.month]
        d  == v[order.day]
    IN  IF ~(t1.ok /\ t2.ok /\ t3.ok /\ t4.ok /\ t5.ok) THEN InvalidDate
        ELSE IF Trim(t5.rest) # <<>> THEN InvalidDate
        ELSE IF y < 1 \/ m < 1 \/ m > 12 \/ d < 1 THEN InvalidDate
        ELSE IF d > DaysInMonth(y, m) THEN InvalidDate
        ELSE LocalTime(e, DaysFromCivil(y, m, d), 0)

\* parse(dateString, 'M/d/yyyy', new Date())
ParseMdy(e, s) ==
    ParseTokens(e, s, <<"M", "/", "d", "/", "yyyy">>,
                [month |-> 1, day |-> 2, year |-> 3])

\* parse(dateString, 'yyyy-MM-dd', new Date())
ParseYmd(e, s) ==
    ParseTokens(e, s, <<"yyyy", "-", "MM", "-", "dd">>,
                [year |-> 1, month |-> 2, day |-> 3])

\* exactly n digits at the front of s
FixedNum(s, n) == Len(s) >= n /\ DigitRun(s, n) = n

\* the time-of-day part "HH:mm:ss" : seconds, or -1
ClockSecs(s) ==
    IF /\ Len(s) = 8 /\ FixedNum(s, 2) /\ s[3] = ":"
       /\ FixedNum(SubSeq(s, 4, 8), 2) /\ s[6] = ":" /\ FixedNum(SubSeq(s, 7, 8), 2)
    THEN LET h  == NumVal(SubSeq(s, 1, 2))
             mi == NumVal(SubSeq(s, 4, 5))
             sc == NumVal(SubSeq(s, 7, 8))
         IN  IF h <= 23 /\ mi <= 59 /\ sc <= 59 THEN h * 3600 + mi * 60 + sc ELSE -1
    ELSE -1

\* the day number of y-m-d as the engine takes it: the strict engine rejects
\* a day past the month's end, the lenient one accepts 1..31 and rolls over
EngineDays(e, y, m, d) ==
    IF m < 1 \/ m > 12 \/ d < 1 \/ d > 31 THEN -1
    ELSE IF d > DaysInMonth(y, m) /\ e.engine = "strict" THEN -1
    ELSE DaysFromCivil(y, m, 1) + d - 1

\* new Date(dateString): "YYYY-MM-DD" is UTC midnight, "YYYY-MM-DDTHH:mm:ss"
\* is local time; "YYYY-MM-DD HH:mm:ss" and "M/D/YYYY" are no ISO forms, and
\* only the lenient engine takes them (as local time).
ParseGeneric(e, s) ==
    LET isoDate == /\ Len(s) >= 10 /\ FixedNum(s, 4) /\ s[5] = "-"
                   /\ FixedNum(SubSeq(s, 6, Len(s)), 2) /\ s[8] = "-"
                   /\ FixedNum(SubSeq(s, 9, Len(s)), 2)
        days == EngineDays(e, NumVal(SubSeq(s, 1, 4)), NumVal(SubSeq(s, 6, 7)),
                           NumVal(SubSeq(s, 9, 10)))
        secs == ClockSecs(SubSeq(s, 12, Len(s)))
        t1 == TakeToken("M", s)
        t2 == TakeToken("/", t1.rest)
        t3 == TakeToken("d", t2.rest)
        t4 == TakeToken("/", t3.rest)
        t5 == TakeToken("yyyy", t4.rest)
        mdy == EngineDays(e, t5.val, t1.val, t3.val)
    IN  IF isoDate /\ Len(s) = 10
        THEN IF days = -1 \/ NumVal(SubSeq(s, 1, 4)) < 1 THEN InvalidDate
             ELSE UtcTime(days, 0)
        ELSE IF isoDate /\ Len(s) = 19 /\ s[11] \in {"T", " "}
        THEN IF days = -1 \/ secs = -1 \/ NumVal(SubSeq(s, 1, 4)) < 1 THEN InvalidDate
             ELSE IF s[11] = " " /\ e.engine = "strict" THEN InvalidDate
             ELSE LocalTime(e, days, secs)
        ELSE IF /\ e.engine = "lenient"
                /\ t1.ok /\ t2.ok /\ t3.ok /\ t4.ok /\ t5.ok
                /\ Len(t4.rest) = 4 /\ t5.rest = <<>> /\ mdy # -1
        THEN LocalTime(e, mdy, 0)
        ELSE InvalidDate

(***************************************************************************)
(* parseDateString (Home) and formatDate (news-article-card.tsx).          *)
(* `attempts` lists the format calls made, in order.                       *)
(***************************************************************************)
FmtMdy == "M/d/yyyy"
FmtYmd == "yyyy-MM-dd"
FmtGeneric == "new Date"

\* a variant that consults the free-form parse before 'yyyy-MM-dd'
parseDateString_GenericSecond(e, dateString) ==
    IF ~Truthy(dateString)
    THEN [attempts |-> <<>>, isNull |-> TRUE, time |-> ZeroTime]
    ELSE LET mdy == ParseMdy(e, dateString)
             ymd == ParseYmd(e, dateString)
             gen == ParseGeneric(e, dateString)
         IN  IF mdy.valid
             THEN [attempts |-> <<FmtMdy>>, isNull |-> FALSE, time |-> mdy.time]
             ELSE IF gen.valid
             THEN [attempts |-> <<FmtMdy, FmtGeneric>>, isNull |-> FALSE,
                   time |-> gen.time]
             ELSE IF ymd.valid
             THEN [attempts |-> <<FmtMdy, FmtGeneric, FmtYmd>>, isNull |-> FALSE,
                   time |-> ymd.time]
             ELSE [attempts |-> <<FmtMdy, FmtGeneric, FmtYmd>>, isNull |-> TRUE,
                   time |-> ZeroTime]

parseDateString(e, dateString) ==
    IF ~Truthy(dateString)
    THEN [attempts |-> <<>>, isNull |-> TRUE, time |-> ZeroTime]
    ELSE LET mdy == ParseMdy(e, dateString)
             ymd == ParseYmd(e, dateString)
             gen == ParseGeneric(e, dateString)
         IN  IF mdy.valid
             THEN [attempts |-> <<FmtMdy>>, isNull |-> FALSE, time |-> mdy.time]
             ELSE IF ymd.valid
             THEN [attempts |-> <<FmtMdy, FmtYmd>>, isNull |-> FALSE,
                   time |-> ymd.time]
             ELSE IF gen.valid
             THEN [attempts |-> <<FmtMdy, FmtYmd, FmtGeneric>>, isNull |-> FALSE,
                   time |-> gen.time]
             ELSE [attempts |-> <<FmtMdy, FmtYmd, FmtGeneric>>, isNull |-> TRUE,
                   time |-> ZeroTime]

\* decimal digits of n >= 0
RECURSIVE IntToStr(_)
IntToStr(n) ==
    IF n < 10 THEN <<Digits[n + 1]>> ELSE IntToStr(n \div 10) \o <<Digits[(n % 10) + 1]>>

RECURSIVE PadStart(_, _)
PadStart(s, n) == IF Len(s) >= n THEN s ELSE PadStart(<<"0">> \o s, n)

MonthAbbr ==
    << <<"J", "a", "n">>, <<"F", "e", "b">>, <<"M", "a", "r">>, <<"A", "p", "r">>,
       <<"M", "a", "y">>, <<"J", "u", "n">>, <<"J", "u", "l">>, <<"A", "u", "g">>,
       <<"S", "e", "p">>, <<"O", "c", "t">>, <<"N", "o", "v">>, <<"D", "e", "c">> >>

\* format(date, 'd MMM yyyy'), in local time
FormatDMonY(e, time) ==
    LET c == CivilFromDays(TimeOf(time.day, time.sec + e.tz * 60).day)
    IN  IntToStr(c.day) \o <<" ">> \o MonthAbbr[c.month] \o <<" ">>
        \o PadStart(IntToStr(c.year), 4)

formatDate(e, dateString) ==
    IF ~Truthy(dateString)
    THEN [attempts |-> <<>>, isNull |-> TRUE, text |-> <<>>]
    ELSE LET mdy == ParseMdy(e, dateString)
             ymd == ParseYmd(e, dateString)
             gen == ParseGeneric(e, dateString)
         IN  IF mdy.valid
             THEN [attempts |-> <<FmtMdy>>, isNull |-> FALSE,
                   text |-> FormatDMonY(e, mdy.time)]
             ELSE IF ymd.valid
             THEN [attempts |-> <<FmtMdy, FmtYmd>>, isNull |-> FALSE,
                   text |-> FormatDMonY(e, ymd.time)]
             ELSE IF gen.valid
             THEN [attempts |-> <<FmtMdy, FmtYmd, FmtGeneric>>, isNull |-> FALSE,
                   text |-> FormatDMonY(e, gen.time)]
             ELSE [attempts |-> <<FmtMdy, FmtYmd, FmtGeneric>>, isNull |-> FALSE,
                   text |-> dateString]

(***************************************************************************)
(* Run 3: the two date helpers on one input.                               *)
(***************************************************************************)
TimeZones == { -300, 0, 120 }
Engines == { "strict", "lenient" }
Envs == [tz : TimeZones, engine : Engines]

Date20250504 == <<"2", "0", "2", "5", "-", "0", "5", "-", "0", "4">>
Clock205013 == <<"2", "0", ":", "5", "0", ":", "1", "3">>

DateSamples ==
    { Undefined,
      Date544,
      Date20250504,
      Date20250504 \o <<" ">> \o Clock205013,
      Date20250504 \o <<"T">> \o Clock205013,
      <<"n", "o", "t", "-", "a", "-", "d", "a", "t", "e">>,
      <<"2", "/", "3", "0", "/", "2", "0", "2", "5">>,
      <<"1", "3", "/", "4", "/", "2", "0", "2", "5">>,
      <<"1", "2", "/", "3", "1", "/", "1", "9", "9", "9">>,
      <<"2", "0", "2", "5", "-", "1", "3", "-", "0", "1">>,
      <<"2", "0", "2", "5", "-", "0", "2", "-", "3", "0">>,
      <<"2", "0", "2", "4", "-", "2", "-", "2", "9">> }

DateChars == { "1", "2", "/", "-" }

DateInputs(maxLen) == DateSamples \cup SeqUpTo(DateChars, maxLen)

InitDate ==
    /\ pc = "date"
    /\ env \in Envs
    /\ dateInput \in DateInputs(MaxDateLen)
    /\ dateTrace = Idle
    /\ line = Idle
    /\ scan = Idle
    /\ fetchCount = 0
    /\ response = Idle
    /\ outcome = "pending"
    /\ allArticles = <<>>
    /\ sortedArticles = <<>>
    /\ cards = <<>>

CallParseDateString ==
    /\ pc = "date"
    /\ dateTrace' = parseDateString(env, dateInput)
    /\ pc' = "parsed"
    /\ UNCHANGED <<line, scan, fetchCount, response, outcome, allArticles,
                   sortedArticles, cards, env, dateInput>>

CallFormatDate ==
    /\ pc = "date"
    /\ dateTrace' = formatDate(env, dateInput)
    /\ pc' = "formatted"
    /\ UNCHANGED <<line, scan, fetchCount, response, outcome, allArticles,
                   sortedArticles, cards, env, dateInput>>

NextDate == CallParseDateString \/ CallFormatDate

SpecDate == InitDate /\ [][NextDate]_vars

\* the instant of the first of the three formats, in priority order, that
\* accepts the input; InvalidDate when none does
FirstValid(e, s) ==
    IF ParseMdy(e, s).valid THEN ParseMdy(e, s)
    ELSE IF ParseYmd(e, s).valid THEN ParseYmd(e, s)
    ELSE ParseGeneric(e, s)

\* the formats that have to be consulted for the input, in priority order
FormatsNeeded(e, s) ==
    IF ParseMdy(e, s).valid THEN <<FmtMdy>>
    ELSE IF ParseYmd(e, s).valid THEN <<FmtMdy, FmtYmd>>
    ELSE <<FmtMdy, FmtYmd, FmtGeneric>>

\* C8: both date helpers try month/day/year, then year-month-day, then the
\* free-form parse, stop at the first valid instant and use it; an absent or
\* empty input yields the unparseable signal with no format attempted, and
\* otherwise the normalizer yields it only when all three attempts fail (the
\* formatter then returns the raw string).
C8_FormatPriority ==
    (pc \in {"parsed", "formatted"}) =>
        IF dateInput \in { Undefined, <<>> }
        THEN dateTrace.attempts = <<>> /\ dateTrace.isNull
        ELSE /\ dateTrace.attempts = FormatsNeeded(env, dateInput)
             /\ pc = "parsed" =>
                   /\ dateTrace.isNull = ~FirstValid(env, dateInput).valid
                   /\ ~dateTrace.isNull =>
                         dateTrace.time = FirstValid(env, dateInput).time
             /\ pc = "formatted" =>
                   /\ ~dateTrace.isNull
                   /\ dateTrace.text =
                         IF FirstValid(env, dateInput).valid
                         THEN FormatDMonY(env, FirstValid(env, dateInput).time)
                         ELSE dateInput

\* an input two formats accept with different instants: year-month-day wins
\* over the free-form parse
C8_Witness ==
    /\ pc = "parsed"
    /\ dateTrace.attempts = <<FmtMdy, FmtYmd>>
    /\ ~dateTrace.isNull
    /\ ParseGeneric(env, dateInput).valid
    /\ ParseGeneric(env, dateInput).time # dateTrace.time

(***************************************************************************)
(* Home: ordering and partitioning, and the cards it renders.              *)
(***************************************************************************)
Null == <<"null">>

\* .map(article => ({...article, parsedDate: parseDateString(article.date)}))
WithParsedDate(e, a) ==
    LET p == parseDateString(e, a.date) IN
    [ title |-> a.title, date |-> a.date, imageUrl |-> a.imageUrl,
      summary |-> a.summary, url |-> a.url, source |-> a.source,
      category |-> a.category,
      parsedDate |-> [isNull |-> p.isNull, time |-> p.time] ]

\* no filtering at all
KeepParsed_All(a) == TRUE

\* .filter(article => article.parsedDate !== null)
KeepParsed(a) == ~a.parsedDate.isNull

\* compareDesc(dateLeft, dateRight) of date-fns: -1, 0 or 1
compareDesc(l, r) ==
    IF TimeBefore(r, l) THEN -1 ELSE IF TimeBefore(l, r) THEN 1 ELSE 0

\* the comparator handed to sort
CompareArticles(a, b) == compareDesc(a.parsedDate.time, b.parsedDate.time)

\* x put in front of the elements it ties with: an unstable sort
RECURSIVE SortInsert_BeforeTies(_, _)
SortInsert_BeforeTies(sorted, x) ==
    IF sorted = <<>> THEN <<x>>
    ELSE IF CompareArticles(Head(sorted), x) >= 0 THEN <<x>> \o sorted
    ELSE <<Head(sorted)>> \o SortInsert_BeforeTies(Tail(sorted), x)

\* x put into a sorted list behind every element that does not have to
\* follow it: the one order a stable sort (Array.prototype.sort) can produce
RECURSIVE SortInsert(_, _)
SortInsert(sorted, x) ==
    IF sorted = <<>> THEN <<x>>
    ELSE IF CompareArticles(Head(sorted), x) > 0 THEN <<x>> \o sorted
    ELSE <<Head(sorted)>> \o SortInsert(Tail(sorted), x)

\* .sort((a, b) => compareDesc(a.parsedDate, b.parsedDate))
RECURSIVE SortArticles(_)
SortArticles(list) ==
    IF list = <<>> THEN <<>>
    ELSE SortInsert(SortArticles(SubSeq(list, 1, Len(list) - 1)), list[Len(list)])

SortedArticlesOf(e, articles) ==
    SortArticles(SelectSeq([k \in 1..Len(articles) |-> WithParsedDate(e, articles[k])],
                           KeepParsed))

\* slice(begin, end) of a JS array, begin <= end
Slice(list, begin, end) ==
    SubSeq(list, begin + 1, IF end < Len(list) THEN end ELSE Len(list))

FeaturedCount == 4

\* sortedArticles.slice(0, 4)
NewestArticles(sorted) == Slice(sorted, 0, FeaturedCount)

\* newestArticles.length > 1 ? newestArticles.slice(1) : []
SideArticles(newest) ==
    IF Len(newest) > 1 THEN Slice(newest, 1, Len(newest)) ELSE <<>>

\* a grid that starts one article early
RemainingArticles_Overlap(sorted) == Slice(sorted, FeaturedCount - 1, Len(sorted))

\* sortedArticles.slice(4)
RemainingArticles(sorted) ==
    IF FeaturedCount <= Len(sorted) THEN Slice(sorted, FeaturedCount, Len(sorted))
    ELSE <<>>

\* getImageDimensions(size)
getImageDimensions(size) ==
    CASE size = "large" -> [width |-> 800, height |-> 500]
      [] size = "small" -> [width |-> 400, height |-> 250]
      [] OTHER          -> [width |-> 600, height |-> 400]

\* encodeURIComponent on the characters of the model: the reserved ASCII
\* characters become their percent escapes, every other one is kept
PercentEscape(c) ==
    CASE c = " "   -> <<"%", "2", "0">>
      [] c = Quote -> <<"%", "2", "2">>
      [] c = "#"   -> <<"%", "2", "3">>
      [] c = "%"   -> <<"%", "2", "5">>
      [] c = Comma -> <<"%", "2", "C">>
      [] c = "/"   -> <<"%", "2", "F">>
      [] c = ":"   -> <<"%", "3", "A">>
      [] c = "?"   -> <<"%", "3", "F">>
      [] OTHER     -> <<c>>

RECURSIVE encodeURIComponent(_)
encodeURIComponent(s) ==
    IF s = <<>> THEN <<>> ELSE PercentEscape(Head(s)) \o encodeURIComponent(Tail(s))

\* `https://picsum.photos/seed/${encodeURIComponent(title)}/${w}/${h}`
\* (the fixed first part of a template is kept as one element)
PlaceholderUrl(title, size) ==
    LET dim == getImageDimensions(size) IN
    <<"https://picsum.photos/seed/">> \o encodeURIComponent(title) \o <<"/">>
    \o IntToStr(dim.width) \o <<"/">> \o IntToStr(dim.height)

\* a NewsArticleCard as first rendered: the useState initial values
NewCard(article, size, section) ==
    [ article      |-> article,
      size         |-> size,
      section      |-> section,
      imageUrl     |-> OrElse(article.imageUrl, PlaceholderUrl(article.title, size)),
      imageError   |-> FALSE,
      faviconUrl   |-> Null,
      faviconError |-> FALSE,
      isInView     |-> FALSE,
      mounted      |-> FALSE,     \* the effects of the first commit have run
      imageErrors  |-> 0,         \* history: error events of the image so far
      swaps        |-> 0,         \* history: setImageUrl calls of the handler
      faviconErrors |-> 0 ]       \* history: error events of the favicon

\* the cards of the returned tree, in document order
RenderedCards(sorted) ==
    LET newest == NewestArticles(sorted)
        side == SideArticles(newest)
        remaining == RemainingArticles(sorted)
    IN  (IF Len(newest) > 0 THEN <<NewCard(newest[1], "large", "main")>> ELSE <<>>)
        \o [k \in 1..Len(side) |-> NewCard(side[k], "small", "side")]
        \o [k \in 1..Len(remaining) |-> NewCard(remaining[k], "default", "remaining")]

\* Home after `await getNews()`: sort, partition, render
HomeRender ==
    /\ pc = "settled"
    /\ outcome = "resolved"
    /\ sortedArticles' = SortedArticlesOf(env, allArticles)
    /\ cards' = RenderedCards(sortedArticles')
    /\ pc' = "rendered"
    /\ UNCHANGED <<line, scan, fetchCount, response, outcome, allArticles,
                   env, dateInput, dateTrace>>

(***************************************************************************)
(* Run 4: the page on a feed of dated rows.                                *)
(***************************************************************************)
Date555 == <<"5", "/", "5", "/", "2", "0", "2", "5">>

DatedLine(title, date) == Join(<<title, date, <<>>, <<>>, Str_u>>, Comma)

HomeLines ==
    { DatedLine(<<"a">>, Date544),
      DatedLine(<<"b">>, Date20250504),   \* the same instant as 5/4/2025
      DatedLine(<<"c">>, Date555),
      DatedLine(<<"d">>, <<"x">>),        \* no format takes it
      DatedLine(<<"e">>, <<>>) }          \* no date

HomeHeader == Join(<<<<"t">>, <<"d">>, <<"i">>, <<"s">>, <<"u">> >>, Comma)

HomeResponses(maxRows) ==
    { ResponseNotOk }
    \cup { ResponseOk(Join(<<HomeHeader>> \o rows, Newline)) :
             rows \in SeqUpTo(HomeLines, maxRows) }

\* the dated rows above are read by the two date-fns formats alone, whose
\* results are local midnights: one runtime stands for all
HomeEnvs == { [tz |-> -300, engine |-> "lenient"] }

InitHome == InitPage /\ env \in HomeEnvs

NextHome == Fetch(HomeResponses(MaxHomeRows)) \/ GetNewsSettle \/ HomeRender

SpecHome == InitHome /\ [][NextHome]_vars

PageRendered == pc = "rendered"

\* a rendered or sorted article without its derived sort key
FeedArticle(a) ==
    [ title |-> a.title, date |-> a.date, imageUrl |-> a.imageUrl,
      summary |-> a.summary, url |-> a.url, source |-> a.source,
      category |-> a.category ]

\* the date is absent, or each of the three formats rejects it
Unparseable(a) ==
    \/ a.date = Undefined
    \/ /\ ~ParseMdy(env, a.date).valid
       /\ ~ParseYmd(env, a.date).valid
       /\ ~ParseGeneric(env, a.date).valid

\* the number of positions of list that hold x
Occurrences(list, x) == Cardinality({ k \in 1..Len(list) : list[k] = x })

FeaturedCards == SelectSeq(cards, LAMBDA c : c.section \in {"main", "side"})

RemainingCards == SelectSeq(cards, LAMBDA c : c.section = "remaining")

CardArticles(cs) == [k \in 1..Len(cs) |-> FeedArticle(cs[k].article)]

\* C5: an article whose date is absent or rejected by all three formats gets
\* the unparseable signal from parseDateString and is in neither the featured
\* nor the remaining list; every other article of the feed is in exactly one
\* of the two lists, as often as it is in the feed.
C5_UnparseableExcluded ==
    PageRendered =>
        \A k \in 1..Len(allArticles) :
            LET a == allArticles[k]
                inFeatured == Occurrences(CardArticles(FeaturedCards), a)
                inRemaining == Occurrences(CardArticles(RemainingCards), a)
            IN  IF Unparseable(a)
                THEN /\ parseDateString(env, a.date).isNull
                     /\ inFeatured = 0 /\ inRemaining = 0
                ELSE /\ ~parseDateString(env, a.date).isNull
                     /\ inFeatured + inRemaining = Occurrences(allArticles, a)

\* a feed with an undated article, an article with a rejected date and a
\* dated one, the last one rendered
C5_Witness ==
    /\ PageRendered
    /\ \E k \in 1..Len(allArticles) : allArticles[k].date = Undefined
    /\ \E k \in 1..Len(allArticles) :
          allArticles[k].date # Undefined /\ Unparseable(allArticles[k])
    /\ Len(cards) >= 1

\* the feed articles with a parseable date whose instant is t, in feed order
FeedAt(t) ==
    SelectSeq(allArticles,
              LAMBDA a : ~Unparseable(a) /\ FirstValid(env, a.date).time = t)

\* the sorted articles whose instant is t, in sorted order
SortedAt(t) ==
    [k \in 1..Len(SelectSeq(sortedArticles, LAMBDA a : a.parsedDate.time = t)) |->
        FeedArticle(SelectSeq(sortedArticles, LAMBDA a : a.parsedDate.time = t)[k])]

\* C6: the sorted list is newest first, and articles with the same instant
\* stand in it in the order they have in the feed.
C6_NewestFirstStable ==
    PageRendered =>
        /\ \A i, j \in 1..Len(sortedArticles) :
              i < j => ~TimeBefore(sortedArticles[i].parsedDate.time,
                                   sortedArticles[j].parsedDate.time)
        /\ \A k \in 1..Len(sortedArticles) :
              SortedAt(sortedArticles[k].parsedDate.time)
                  = FeedAt(sortedArticles[k].parsedDate.time)

\* two different articles with the same instant, and a newer one that the
\* feed lists after them and the sort has moved in front
C6_Witness ==
    /\ PageRendered
    /\ Len(sortedArticles) >= 3
    /\ sortedArticles[2].parsedDate.time = sortedArticles[3].parsedDate.time
    /\ sortedArticles[2].title # sortedArticles[3].title
    /\ TimeBefore(sortedArticles[2].parsedDate.time, sortedArticles[1].parsedDate.time)
    /\ FeedArticle(sortedArticles[1]) = allArticles[Len(allArticles)]

\* the smaller of two numbers
Min(a, b) == IF a <= b THEN a ELSE b

\* C7: the featured cards are the first four sorted articles (all of them
\* when there are fewer), one primary and at most three secondary; the
\* remaining cards are all later ones; each sorted article is rendered once,
\* and featured plus remaining number the parseable articles of the feed.
C7_FeaturedPartition ==
    PageRendered =>
        /\ [k \in 1..Len(cards) |-> cards[k].article] = sortedArticles
        /\ Len(FeaturedCards) = Min(4, Len(sortedArticles))
        /\ \A k \in 1..Len(cards) :
              cards[k].section = (IF k = 1 THEN "main"
                                  ELSE IF k <= 4 THEN "side" ELSE "remaining")
        /\ Cardinality({ k \in 1..Len(cards) : cards[k].section = "main" })
              = Min(1, Len(sortedArticles))
        /\ Cardinality({ k \in 1..Len(cards) : cards[k].section = "side" }) <= 3
        /\ Len(FeaturedCards) + Len(RemainingCards)
              = Cardinality({ k \in 1..Len(allArticles) : ~Unparseable(allArticles[k]) })

\* five parseable articles: four featured and one remaining
C7_Witness ==
    /\ PageRendered
    /\ Len(FeaturedCards) = 4
    /\ Len(RemainingCards) = 1
    /\ Len(allArticles) = 5

(***************************************************************************)
(* NewsArticleCard: favicon address, effects and event handlers.           *)
(***************************************************************************)
Letters ==
    { "a", "b", "c", "d", "e", "f", "g", "h", "i", "j", "k", "l", "m", "n",
      "o", "p", "q", "r", "s", "t", "u", "v", "w", "x", "y", "z" }

\* the number of leading characters of s that belong to S
RECURSIVE RunOf(_, _)
RunOf(s, S) == IF s = <<>> \/ Head(s) \notin S THEN 0 ELSE 1 + RunOf(Tail(s), S)

\* the number of leading characters of s that do not belong to S
RECURSIVE RunUntil(_, _)
RunUntil(s, S) == IF s = <<>> \/ Head(s) \in S THEN 0 ELSE 1 + RunUntil(Tail(s), S)

SpecialSchemes ==
    { <<"h", "t", "t", "p">>, <<"h", "t", "t", "p", "s">> }

\* new URL(url).hostname, for inputs without userinfo, port or escapes:
\* [ok, hostname]; ok = FALSE is the TypeError of an input that is no
\* absolute URL.  A special scheme (http, https) needs a host; any other
\* scheme parses with an authority after "//" or with none, and then the
\* hostname is empty.
ParseUrl(s) ==
    LET n      == RunOf(s, Letters)
        scheme == SubSeq(s, 1, n)
        rest   == SubSeq(s, n + 2, Len(s))
        slashes == RunOf(rest, {"/"})
        afterAll == SubSeq(rest, slashes + 1, Len(rest))
        afterTwo == SubSeq(rest, 3, Len(rest))
        stop == {"/", "?", "#"}
    IN  IF n = 0 \/ n >= Len(s) + 1 \/ CharAt(s, n + 1) # ":"
        THEN [ok |-> FALSE, hostname |-> <<>>]
        ELSE IF scheme \in SpecialSchemes
        THEN LET host == SubSeq(afterAll, 1, RunUntil(afterAll, stop))
             IN  IF host = <<>> \/ \E k \in 1..Len(host) : host[k] \in {":", " ", "%"}
                 THEN [ok |-> FALSE, hostname |-> <<>>]
                 ELSE [ok |-> TRUE, hostname |-> host]
        ELSE IF slashes >= 2
        THEN [ok |-> TRUE, hostname |-> SubSeq(afterTwo, 1, RunUntil(afterTwo, stop))]
        ELSE [ok |-> TRUE, hostname |-> <<>>]

\* `https://www.google.com/s2/favicons?domain=${hostname}&sz=32`
FaviconAddress(hostname) ==
    <<"https://www.google.com/s2/favicons?domain=">> \o hostname \o <<"&sz=32">>

\* a catch block that still builds an address
getFaviconUrl_NoCatch(url) ==
    IF ~Truthy(url) THEN Null ELSE FaviconAddress(ParseUrl(url).hostname)

getFaviconUrl(url) ==
    IF ~Truthy(url) THEN Null
    ELSE IF ParseUrl(url).ok THEN FaviconAddress(ParseUrl(url).hostname)
    ELSE Null

\* the effect on [article.imageUrl, article.title, article.url, size]; the
\* props of a card never change, so it runs once, with the first commit
ArticleEffect(c) ==
    [c EXCEPT !.imageUrl = OrElse(c.article.imageUrl,
                                  PlaceholderUrl(c.article.title, c.size)),
              !.imageError = FALSE,
              !.faviconUrl = getFaviconUrl(c.article.url),
              !.faviconError = FALSE]

\* a handler that swaps without marking the image as a fallback
handleImageError_NoMark(c) ==
    [c EXCEPT !.imageUrl = PlaceholderUrl(c.article.title, c.size),
              !.swaps = @ + 1]

handleImageError(c) ==
    IF ~c.imageError
    THEN [c EXCEPT !.imageUrl = PlaceholderUrl(c.article.title, c.size),
                   !.imageError = TRUE,
                   !.swaps = @ + 1]
    ELSE c

handleFaviconError(c) == [c EXCEPT !.faviconError = TRUE]

\* {faviconUrl && !faviconError && (...)} : the favicon element is rendered
FaviconRendered(c) == c.faviconUrl # Null /\ c.faviconUrl # <<>> /\ ~c.faviconError

\* <Image unoptimized={imageError} />
Unoptimized(c) == c.imageError

CardsUnchanged ==
    UNCHANGED <<pc, line, scan, fetchCount, response, outcome, allArticles,
                sortedArticles, env, dateInput, dateTrace>>

\* the first commit of card i: both effects run (the observer is set up, the
\* article effect sets the image and favicon state).  The handlers of a card
\* are taken to run only after the effects of its first commit.
CardMount(i) ==
    /\ pc = "rendered"
    /\ ~cards[i].mounted
    /\ cards' = [cards EXCEPT ![i] = [ArticleEffect(cards[i]) EXCEPT !.mounted = TRUE]]
    /\ CardsUnchanged

\* the observer reports the card as intersecting: setIsInView(true), unobserve
CardIntersect(i) ==
    /\ pc = "rendered"
    /\ cards[i].mounted
    /\ ~cards[i].isInView
    /\ cards' = [cards EXCEPT ![i].isInView = TRUE]
    /\ CardsUnchanged

\* the fallback mark kept in one flag shared by all cards
ImageError_Shared(i) ==
    /\ pc = "rendered"
    /\ cards[i].mounted
    /\ cards[i].imageErrors < MaxErrorEvents
    /\ cards' = [k \in 1..Len(cards) |->
                    IF k = i
                    THEN [handleImageError(cards[k]) EXCEPT !.imageErrors = @ + 1]
                    ELSE [cards[k] EXCEPT !.imageError = TRUE]]
    /\ CardsUnchanged

\* the image of card i fails to load (the first image or the placeholder)
ImageError(i) ==
    /\ pc = "rendered"
    /\ cards[i].mounted
    /\ cards[i].imageErrors < MaxErrorEvents
    /\ cards' = [cards EXCEPT ![i] = [handleImageError(cards[i]) EXCEPT
                                         !.imageErrors = @ + 1]]
    /\ CardsUnchanged

\* the favicon of card i fails to load; it can only while it is rendered
FaviconError(i) ==
    /\ pc = "rendered"
    /\ cards[i].mounted
    /\ FaviconRendered(cards[i])
    /\ cards' = [cards EXCEPT ![i] = [handleFaviconError(cards[i]) EXCEPT
                                         !.faviconErrors = @ + 1]]
    /\ CardsUnchanged

(***************************************************************************)
(* Run 5: the page and its cards on a feed of dated rows that differ in    *)
(* image and article url.                                                  *)
(***************************************************************************)
HttpX == <<"h", "t", "t", "p", ":", "/", "/", "x", ".", "y", "/", "p">>
MailtoX == <<"m", "a", "i", "l", "t", "o", ":", "x">>

CardLine(title, image, url) == Join(<<title, Date544, image, <<>>, url>>, Comma)

CardLines ==
    { CardLine(<<"a">>, <<"i">>, HttpX),          \* image, url with a host
      CardLine(<<"b", " ", "c">>, <<>>, <<"x">>), \* no image, url without scheme
      CardLine(<<"d">>, <<"i">>, <<"h", "t", "t", "p", ":", "/", "/">>),
                                                  \* image, http url without host
      CardLine(<<"e">>, <<>>, MailtoX) }          \* no image, url without authority

CardResponses(maxRows) ==
    { ResponseNotOk }
    \cup { ResponseOk(Join(<<HomeHeader>> \o rows, Newline)) :
             rows \in SeqUpTo(CardLines, maxRows) }

NextCard ==
    \/ Fetch(CardResponses(MaxCardRows))
    \/ GetNewsSettle
    \/ HomeRender
    \/ \E i \in 1..Len(cards) : CardMount(i)
    \/ \E i \in 1..Len(cards) : CardIntersect(i)
    \/ \E i \in 1..Len(cards) : ImageError(i)
    \/ \E i \in 1..Len(cards) : FaviconError(i)

SpecCard == InitHome /\ [][NextCard]_vars

\* the placeholder address of a card: seeded by the escaped title, with the
\* width and height of the card's size
ExpectedPlaceholder(c) ==
    <<"https://picsum.photos/seed/">> \o encodeURIComponent(c.article.title)
    \o (CASE c.size = "large" -> <<"/", "8", "0", "0", "/", "5", "0", "0">>
          [] c.size = "small" -> <<"/", "4", "0", "0", "/", "2", "5", "0">>
          [] OTHER            -> <<"/", "6", "0", "0", "/", "4", "0", "0">>)

\* C9: whatever number of load-error events a card's image gets, there is one
\* fallback swap: before the first error the image address is the article's
\* image (the placeholder if it has none) and the image is no fallback; from
\* the first error on the address is the placeholder seeded by the title and
\* the size's dimensions and the image is marked as a fallback (unoptimized),
\* and later errors, those of the placeholder included, change nothing.
C9_SingleFallbackSwap ==
    \A i \in 1..Len(cards) :
        LET c == cards[i] IN
        /\ c.imageErrors = 0 =>
              /\ ~c.imageError /\ ~Unoptimized(c) /\ c.swaps = 0
              /\ c.imageUrl = (IF c.article.imageUrl # <<>> THEN c.article.imageUrl
                               ELSE ExpectedPlaceholder(c))
        /\ c.imageErrors >= 1 =>
              /\ c.imageError /\ Unoptimized(c) /\ c.swaps = 1
              /\ c.imageUrl = ExpectedPlaceholder(c)

\* a card whose own image failed and whose placeholder then failed too, and
\* a card without an image whose placeholder failed twice
C9_Witness ==
    /\ \E i \in 1..Len(cards) :
          /\ cards[i].article.imageUrl # <<>>
          /\ cards[i].imageErrors >= 2
          /\ cards[i].imageUrl # cards[i].article.imageUrl
    /\ \E i \in 1..Len(cards) :
          /\ cards[i].article.imageUrl = <<>>
          /\ cards[i].imageErrors >= 2

\* the article url is empty or no absolute URL (new URL throws)
MalformedUrl(u) == u = <<>> \/ ~ParseUrl(u).ok

Delivered(i) ==
    \/ cards'[i].mounted # cards[i].mounted
    \/ cards'[i].isInView # cards[i].isInView
    \/ cards'[i].imageErrors # cards[i].imageErrors
    \/ cards'[i].faviconErrors # cards[i].faviconErrors

\* C11: in any interleaving of visibility, image-error and favicon-error
\* events over the rendered cards, a step changes the cards only by delivering
\* an event to one of them, and it leaves every other card's image address,
\* fallback mark, favicon state and visibility flag as they were.
C11_CardFrame ==
    [][ (pc = "rendered" /\ pc' = "rendered") =>
          /\ Len(cards') = Len(cards)
          /\ cards' # cards => \E i \in 1..Len(cards) : Delivered(i)
          /\ \A i \in 1..Len(cards) :
                Delivered(i) =>
                    \A j \in 1..Len(cards) : j # i => cards'[j] = cards[j] ]_vars

\* two cards of the same shape: one has become visible and has had its image
\* and its favicon fail, the other is mounted and untouched
C11_Witness ==
    /\ Len(cards) = 2
    /\ cards[1].article.url = cards[2].article.url
    /\ \E i, j \in 1..2 :
          /\ cards[i].isInView /\ cards[i].imageError /\ cards[i].faviconError
          /\ cards[j].mounted /\ ~cards[j].isInView /\ ~cards[j].imageError
          /\ cards[j].imageErrors = 0 /\ FaviconRendered(cards[j])

====
